---------------------------- MODULE Spec2Model ----------------------------
(***************************************************************************)
(* GitPyFlow: the Flask application built by create_app in                 *)
(* src/app/__init__.py.  Two routes are registered on a fresh Flask        *)
(* instance: '/' (index) and '/add/<int:num1>/<int:num2>' (add).           *)
(*                                                                         *)
(* The module models one request as the steps Flask takes for it:          *)
(*   Receive   the WSGI server hands a request (method, path) to an app,   *)
(*             whose request context matches the path against its url_map  *)
(*   Dispatch  full_dispatch_request: the routing error is turned into a   *)
(*             response, or the view function is called                    *)
(*   Close     the response has been sent and the request context popped   *)
(*                                                                         *)
(* A request path is a string, kept as a tuple of one-character strings so *)
(* that the router's split into segments, the int converter's regular      *)
(* expression and Python's int() can be computed character by character.   *)
(* Response bodies are strings.                                            *)
(*                                                                         *)
(* The semantics of @app.route, of the <int:...> converter and of the      *)
(* dispatch are those of Flask 2.x/3.x on Werkzeug >= 2.2:                 *)
(*   - a rule registered without methods answers GET, HEAD and OPTIONS;    *)
(*   - IntegerConverter has the regular expression \d+ (signed=False) and  *)
(*     converts with int();                                                *)
(*   - Map(merge_slashes=True): a path that matches no rule is matched     *)
(*     again with each "//" replaced by "/", and a match there is answered *)
(*     with a 308 redirect;                                                *)
(*   - a path that matches a rule under another method is answered 405.    *)
(***************************************************************************)
EXTENDS Integers, Sequences, FiniteSets, TLC

VARIABLES
  apps,      \* the applications returned by create_app so far, in call order
  configs,   \* configs[i]: the config argument of the call that returned apps[i]
  slots      \* the requests being handled, one per server thread

vars == <<apps, configs, slots>>

---------------------------------------------------------------------------
(* Bounds                                                                  *)

\* The longest request path drawn, in segments.
MaxSegs == 4
\* The number of requests handled at the same time (SpecApps).
MaxRequests == 2
\* The number of create_app calls (SpecApps).
MaxApps == 2

---------------------------------------------------------------------------
(* Strings                                                                 *)

Digits == {"0", "1", "2", "3", "4", "5", "6", "7", "8", "9"}

DigitValue(c) ==
  CASE c = "0" -> 0 [] c = "1" -> 1 [] c = "2" -> 2 [] c = "3" -> 3
    [] c = "4" -> 4 [] c = "5" -> 5 [] c = "6" -> 6 [] c = "7" -> 7
    [] c = "8" -> 8 [] c = "9" -> 9

DigitChar(d) ==
  CASE d = 0 -> "0" [] d = 1 -> "1" [] d = 2 -> "2" [] d = 3 -> "3"
    [] d = 4 -> "4" [] d = 5 -> "5" [] d = 6 -> "6" [] d = 7 -> "7"
    [] d = 8 -> "8" [] d = 9 -> "9"

\* str.split("/") of a path: the segments between the slashes.
RECURSIVE Split(_)
Split(s) ==
  IF s = <<>> THEN <<(<<>>)>>
  ELSE LET rest == Split(Tail(s)) IN
       IF Head(s) = "/" THEN <<(<<>>)>> \o rest
       ELSE <<(<<Head(s)>> \o Head(rest))>> \o Tail(rest)

\* "/".join(segments) behind a leading slash.
RECURSIVE PathOf(_)
PathOf(segs) ==
  IF segs = <<>> THEN <<>>
  ELSE <<"/">> \o Head(segs) \o PathOf(Tail(segs))

\* re.sub("/{2,}?", "/", path): the pattern is lazy, so it is each pair of
\* slashes, left to right, that becomes one slash ("///" becomes "//").
RECURSIVE MergeSlashes(_)
MergeSlashes(s) ==
  IF Len(s) >= 2 /\ s[1] = "/" /\ s[2] = "/"
  THEN <<"/">> \o MergeSlashes(SubSeq(s, 3, Len(s)))
  ELSE IF s = <<>> THEN <<>>
  ELSE <<Head(s)>> \o MergeSlashes(Tail(s))

\* path.lstrip("/")
RECURSIVE LStripSlashes(_)
LStripSlashes(s) ==
  IF s # <<>> /\ Head(s) = "/" THEN LStripSlashes(Tail(s)) ELSE s

\* Python's int(text) for a str: an optional sign and decimal digits give
\* the value, anything else raises ValueError (ok = FALSE).
RECURSIVE DigitsValue(_, _)
DigitsValue(s, acc) ==
  IF s = <<>> THEN acc
  ELSE DigitsValue(Tail(s), 10 * acc + DigitValue(Head(s)))

AllDigits(s) == s # <<>> /\ \A i \in 1..Len(s) : s[i] \in Digits

int(text) ==
  IF AllDigits(text) THEN [ok |-> TRUE, value |-> DigitsValue(text, 0)]
  ELSE IF text # <<>> /\ Head(text) = "-" /\ AllDigits(Tail(text))
       THEN [ok |-> TRUE, value |-> 0 - DigitsValue(Tail(text), 0)]
  ELSE IF text # <<>> /\ Head(text) = "+" /\ AllDigits(Tail(text))
       THEN [ok |-> TRUE, value |-> DigitsValue(Tail(text), 0)]
  ELSE [ok |-> FALSE, value |-> 0]

\* Python's str(n) for an int, which is what an f-string field {n} renders.
RECURSIVE str(_)
str(n) ==
  IF n < 0 THEN "-" \o str(0 - n)
  ELSE IF n < 10 THEN DigitChar(n)
  ELSE str(n \div 10) \o DigitChar(n % 10)

---------------------------------------------------------------------------
(* The application: create_app                                             *)

\* The config arguments create_app is called with; None is the default.
Configs == {"None", "testing", "production"}

Methods == {"GET", "HEAD", "OPTIONS", "POST", "PUT", "DELETE"}

\* The parts of a rule string between its slashes: a static text or a
\* converter with its variable.
Static(text) == [kind |-> "static", text |-> text, name |-> ""]
Converter(conv, name) == [kind |-> conv, text |-> <<>>, name |-> name]

\* Faulty variant of route: the rule answers every method.
routeAnyMethod(rule, endpoint) ==
  [rule |-> rule, endpoint |-> endpoint, methods |-> Methods]

\* @app.route(rule) with no methods argument: Flask registers the view
\* function under its own name for GET, adds OPTIONS (automatic options),
\* and Werkzeug's Rule adds HEAD to a rule that answers GET.
route(rule, endpoint) ==
  [rule |-> rule, endpoint |-> endpoint, methods |-> {"GET", "HEAD", "OPTIONS"}]

\* Faulty variant of IndexRule: index is registered at '/foo'.
IndexRuleFoo ==
  [rule |-> <<Static(<<"f", "o", "o">>)>>, endpoint |-> "index",
   methods |-> {"GET", "HEAD", "OPTIONS"}]

\* '/'
IndexRule == route(<<Static(<<>>)>>, "index")

\* '/add/<int:num1>/<int:num2>'
AddRule ==
  route(<<Static(<<"a", "d", "d">>), Converter("int", "num1"),
          Converter("int", "num2")>>, "add")

\* Faulty variant of index: another greeting.
indexOther == "Hello World!"

\* def index()
index == "Hello Flask!"

\* Faulty variant of add: the sum without the extra one.
addExactSum(num1, num2) ==
  str(num1) \o " + " \o str(num2) \o " = " \o str(num1 + num2)

\* def add(num1, num2)
add(num1, num2) ==
  str(num1) \o " + " \o str(num2) \o " = " \o str(num1 + num2 + 1)

\* Faulty variant of create_app: the add route is registered only without a config.
create_appByConfig(config) ==
  [url_map |-> IF config = "None" THEN {IndexRule, AddRule} ELSE {IndexRule},
   view_functions |-> IF config = "None" THEN {"index", "add"} ELSE {"index"},
   got_first_request |-> FALSE]

\* create_app(config): a new Flask instance with the two routes; config is
\* not read.
create_app(config) ==
  [url_map |-> {IndexRule, AddRule},
   view_functions |-> {"index", "add"},
   got_first_request |-> FALSE]

---------------------------------------------------------------------------
(* URL matching: werkzeug.routing                                          *)

\* Faulty variant of IntegerConverterMatches: the default converter, [^/]+.
AnyConverterMatches(seg) == seg # <<>>

\* Faulty variant of IntegerConverterMatches: int(signed=True), -?\d+.
SignedConverterMatches(seg) ==
  AllDigits(seg) \/ (seg # <<>> /\ Head(seg) = "-" /\ AllDigits(Tail(seg)))

\* Faulty variant of IntegerConverterMatches: no leading zeros, 0|[1-9]\d*.
CanonicalConverterMatches(seg) ==
  AllDigits(seg) /\ (Len(seg) > 1 => Head(seg) # "0")

\* IntegerConverter.regex = r"\d+", matched against a whole segment.
IntegerConverterMatches(seg) == AllDigits(seg)

PartMatches(part, seg) ==
  IF part.kind = "static" THEN seg = part.text
  ELSE IntegerConverterMatches(seg)

\* The rule's parts match the segments one for one (both rules are leaves
\* under strict_slashes: a trailing slash is one more, empty, segment).
RuleMatches(r, segs) ==
  /\ Len(segs) = Len(r.rule)
  /\ \A i \in 1..Len(segs) : PartMatches(r.rule[i], segs[i])

\* The segments of a path behind its leading slash.
Segs(path) == Tail(Split(path))

\* StateMachineMatcher._match: the rules whose path matches, and the one
\* among them that answers the method (no path matches both rules).
PathMatches(url_map, path) == {r \in url_map : RuleMatches(r, Segs(path))}

MethodMatches(url_map, method, path) ==
  {r \in PathMatches(url_map, path) : method \in r.methods}

\* The values of a matched rule's converters, through to_python = int.
Values(r, segs) ==
  [i \in {k \in 1..Len(segs) : r.rule[k].kind # "static"} |-> int(segs[i])]

RouteError(code) ==
  [kind |-> "error", code |-> code, endpoint |-> "", location |-> <<>>,
   args |-> <<>>]

\* MapAdapter.match(path_info, method): the matched endpoint and arguments,
\* or the routing exception (NotFound, MethodNotAllowed, RequestRedirect).
Match(url_map, method, path_info) ==
  LET path == <<"/">> \o LStripSlashes(path_info)
      merged == MergeSlashes(path)
      found == MethodMatches(url_map, method, path)
      again == MethodMatches(url_map, method, merged)
      have_match_for ==
        PathMatches(url_map, path) \cup PathMatches(url_map, merged)
  IN IF found # {}
     THEN LET r == CHOOSE x \in found : TRUE
              values == Values(r, Segs(path))
          IN IF \A i \in DOMAIN values : values[i].ok
             THEN [kind |-> "rule", code |-> 200, endpoint |-> r.endpoint,
                   location |-> <<>>,
                   args |-> [i \in DOMAIN values |-> values[i].value]]
             ELSE RouteError(500)
     ELSE IF again # {} THEN [RouteError(308) EXCEPT !.location = merged]
     ELSE IF have_match_for # {} THEN RouteError(405)
     ELSE RouteError(404)

---------------------------------------------------------------------------
(* Requests                                                                *)

\* The path segments requests are drawn from: empty, the static text of the
\* add rule, another word, plain digits, leading zeros, a minus sign.
Segments ==
  { <<>>, <<"a", "d", "d">>, <<"f", "o", "o">>, <<"2">>, <<"3">>,
    <<"0", "0", "7">>, <<"-", "1">> }

\* Every path of one to MaxSegs segments.
Paths ==
  {PathOf(segs) : segs \in UNION {[1..n -> Segments] : n \in 1..MaxSegs}}

\* Every method on every path.
Requests == [method : Methods, path : Paths]

Request(method, segs) == [method |-> method, path |-> PathOf(segs)]

\* The requests of the specifications with several threads or several apps.
SampleRequests ==
  { Request("GET", <<(<<>>)>>),
    Request("GET", <<(<<"a", "d", "d">>), (<<"2">>), (<<"3">>)>>),
    Request("GET", <<(<<"a", "d", "d">>), (<<"7">>), (<<"3">>)>>),
    Request("GET", <<(<<"a", "d", "d">>), (<<"0", "0", "7">>), (<<"0", "3">>)>>),
    Request("GET", <<(<<"a", "d", "d">>), (<<"2">>), (<<"f", "o", "o">>)>>),
    Request("GET", <<(<<"a", "d", "d">>), (<<"-", "1">>), (<<"5">>)>>),
    Request("GET", <<(<<"a", "d", "d">>), (<<"2">>), (<<>>), (<<"3">>)>>),
    Request("POST", <<(<<"a", "d", "d">>), (<<"2">>), (<<"3">>)>>) }

NoMatch == RouteError(0)
NoResponse == [status |-> 0, body |-> "", location |-> <<>>]

\* A server thread with no request.
IdleSlot ==
  [pc |-> "idle", app |-> 0, method |-> "", path |-> <<>>, match |-> NoMatch,
   called |-> "none", response |-> NoResponse]

\* The body of Werkzeug's default page for an HTTP error.
ErrorBody(code) ==
  CASE code = 404 -> "Not Found"
    [] code = 405 -> "Method Not Allowed"
    [] code = 308 -> "Redirecting..."
    [] OTHER -> "Internal Server Error"

\* Faulty variant of ViewFunction: add reads the arguments from a variable shared by
\* the threads, which holds those of the first thread's request.
ViewFunctionShared(endpoint, args) ==
  IF endpoint = "index" THEN index
  ELSE LET shared == IF slots[1].match.endpoint = "add"
                     THEN slots[1].match.args ELSE args
       IN add(shared[2], shared[3])

\* Faulty variant of ViewFunction: the app's first request is answered differently.
ViewFunctionFirst(endpoint, args) ==
  IF \E a \in DOMAIN apps : ~apps[a].got_first_request THEN "Welcome!"
  ELSE IF endpoint = "index" THEN index ELSE add(args[2], args[3])

\* app.view_functions[endpoint](**args)
ViewFunction(endpoint, args) ==
  IF endpoint = "index" THEN index ELSE add(args[2], args[3])

\* The body as sent: none in the response to a HEAD request.
Sent(method, body) == IF method = "HEAD" THEN "" ELSE body

\* app.full_dispatch_request for a request whose URL match is m: the routing
\* exception becomes its error response, an OPTIONS request is answered by
\* make_default_options_response, and any other request calls the view
\* function.  called is the view function that ran.
full_dispatch_request(method, m) ==
  IF m.kind = "error"
  THEN [called |-> "none",
        response |-> [status |-> m.code,
                      body |-> Sent(method, ErrorBody(m.code)),
                      location |-> m.location]]
  ELSE IF method = "OPTIONS"
  THEN [called |-> "none",
        response |-> [status |-> 200, body |-> "", location |-> <<>>]]
  ELSE [called |-> m.endpoint,
        response |-> [status |-> 200,
                      body |-> Sent(method, ViewFunction(m.endpoint, m.args)),
                      location |-> <<>>]]

---------------------------------------------------------------------------
(* Actions                                                                 *)

\* A call of create_app(config).
CreateApp(config) ==
  /\ Len(apps) < MaxApps
  /\ apps' = Append(apps, create_app(config))
  /\ configs' = Append(configs, config)
  /\ UNCHANGED slots

\* app.wsgi_app up to ctx.push(): thread s takes a request for one of the
\* apps, and match_request stores the matched rule or the routing exception.
Receive(s, requests) ==
  /\ slots[s].pc = "idle"
  /\ \E a \in DOMAIN apps, req \in requests :
       slots' = [slots EXCEPT ![s] =
                   [pc |-> "matched", app |-> a, method |-> req.method,
                    path |-> req.path,
                    match |-> Match(apps[a].url_map, req.method, req.path),
                    called |-> "none", response |-> NoResponse]]
  /\ UNCHANGED <<apps, configs>>

\* app.wsgi_app from full_dispatch_request on: the app notes that it has
\* served a request, and the response is built.
Dispatch(s) ==
  LET req == slots[s]
      out == full_dispatch_request(req.method, req.match)
  IN /\ req.pc = "matched"
     /\ apps' = [apps EXCEPT ![req.app].got_first_request = TRUE]
     /\ slots' = [slots EXCEPT ![s].pc = "done",
                               ![s].called = out.called,
                               ![s].response = out.response]
     /\ UNCHANGED configs

\* The response has been sent and the request context is popped.
Close(s) ==
  /\ slots[s].pc = "done"
  /\ slots' = [slots EXCEPT ![s] = IdleSlot]
  /\ UNCHANGED <<apps, configs>>

---------------------------------------------------------------------------
(* Specifications                                                          *)

\* One application, create_app(), serving one request at a time, the
\* requests drawn from every method and every path of Paths.
Init ==
  /\ apps = <<create_app("None")>>
  /\ configs = <<"None">>
  /\ slots = [s \in {1} |-> IdleSlot]

Next ==
  \/ \E s \in DOMAIN slots : Receive(s, Requests)
  \/ \E s \in DOMAIN slots : Dispatch(s)
  \/ \E s \in DOMAIN slots : Close(s)

Spec == Init /\ [][Next]_vars

\* One application serving MaxRequests requests at the same time, their
\* steps interleaved in every order.
InitThreads ==
  /\ apps = <<create_app("None")>>
  /\ configs = <<"None">>
  /\ slots = [s \in 1..MaxRequests |-> IdleSlot]

NextThreads ==
  \/ \E s \in DOMAIN slots : Receive(s, SampleRequests)
  \/ \E s \in DOMAIN slots : Dispatch(s)
  \/ \E s \in DOMAIN slots : Close(s)

SpecThreads == InitThreads /\ [][NextThreads]_vars

\* Up to MaxApps applications from separate create_app calls, each with any
\* config, serving one request at a time.
InitApps ==
  /\ apps = <<>>
  /\ configs = <<>>
  /\ slots = [s \in {1} |-> IdleSlot]

NextApps ==
  \/ \E config \in Configs : CreateApp(config)
  \/ \E s \in DOMAIN slots : Receive(s, SampleRequests)
  \/ \E s \in DOMAIN slots : Dispatch(s)
  \/ \E s \in DOMAIN slots : Close(s)

SpecApps == InitApps /\ [][NextApps]_vars

---------------------------------------------------------------------------
(* Properties                                                              *)

AddSeg == <<"a", "d", "d">>

Done(s) == slots[s].pc = "done"

\* The path is exactly '/'.
IsIndexPath(path) == path = <<"/">>

\* The path is exactly '/add/' followed by two segments of decimal digits.
IsAddPath(path) ==
  LET segs == Segs(path)
  IN /\ path # <<>> /\ Head(path) = "/"
     /\ Len(segs) = 3
     /\ segs[1] = AddSeg
     /\ AllDigits(segs[2])
     /\ AllDigits(segs[3])

Registered(path) == IsIndexPath(path) \/ IsAddPath(path)

\* A minus sign followed by decimal digits.
IsNegative(seg) == seg # <<>> /\ Head(seg) = "-" /\ AllDigits(Tail(seg))

\* The text "{a} + {b} = {c}".
Sum(a, b, c) == str(a) \o " + " \o str(b) \o " = " \o str(c)

\* C1: every finished GET /add/a/b with a and b in plain decimal digits has
\* status 200 and the body "{a} + {b} = {a+b+1}", one more than the sum;
\* /add/2/3 gives "2 + 3 = 6".
C1_AddReportsSumPlusOne ==
  \A s \in DOMAIN slots :
    (Done(s) /\ slots[s].method = "GET" /\ IsAddPath(slots[s].path)) =>
      LET segs == Segs(slots[s].path)
          a == int(segs[2]).value
          b == int(segs[3]).value
      IN /\ slots[s].response.status = 200
         /\ slots[s].response.body = Sum(a, b, a + b + 1)
         /\ slots[s].response.body # Sum(a, b, a + b)
         /\ slots[s].path = PathOf(<<AddSeg, <<"2">>, <<"3">>>>)
              => slots[s].response.body = "2 + 3 = 6"

C1_Witness ==
  \E s \in DOMAIN slots :
    /\ Done(s) /\ slots[s].method = "GET"
    /\ slots[s].path = PathOf(<<AddSeg, <<"2">>, <<"3">>>>)
    /\ slots[s].response = [status |-> 200, body |-> "2 + 3 = 6",
                            location |-> <<>>]

\* C2: every finished GET / has status 200 and the body "Hello Flask!",
\* whatever the other threads have handled or are handling and whether or
\* not the app has served a request before.
C2_IndexAlwaysHello ==
  \A s \in DOMAIN slots :
    (Done(s) /\ slots[s].method = "GET" /\ IsIndexPath(slots[s].path)) =>
      /\ slots[s].response.status = 200
      /\ slots[s].response.body = "Hello Flask!"
      /\ slots[s].called = "index"

C2_Witness ==
  \E s, t \in DOMAIN slots :
    /\ Done(s) /\ slots[s].method = "GET" /\ IsIndexPath(slots[s].path)
    /\ slots[s].response.body = "Hello Flask!"
    /\ Done(t) /\ slots[t].response.status = 404

\* C3: a finished GET /add/s1/s2 in which s1 or s2 is not parseable as an
\* integer has status 404, and add was not called for it.
C3_NonIntegerIs404 ==
  \A s \in DOMAIN slots :
    LET segs == Segs(slots[s].path)
    IN (/\ Done(s) /\ slots[s].method = "GET"
        /\ Len(segs) = 3 /\ segs[1] = AddSeg
        /\ (~int(segs[2]).ok \/ ~int(segs[3]).ok)) =>
         /\ slots[s].response.status = 404
         /\ slots[s].called = "none"

C3_Witness ==
  \E s \in DOMAIN slots :
    /\ Done(s) /\ slots[s].method = "GET"
    /\ slots[s].path = PathOf(<<AddSeg, <<"2">>, <<"f", "o", "o">>>>)
    /\ slots[s].response.status = 404
    /\ slots[s].called = "none"

\* The request is GET /add/a/b where a and b are integers in decimal, with
\* or without a minus sign, and at least one has the minus sign.
NegativeAddRequest(s) ==
  LET segs == Segs(slots[s].path)
  IN /\ Done(s) /\ slots[s].method = "GET"
     /\ Len(segs) = 3 /\ segs[1] = AddSeg
     /\ \A i \in {2, 3} : AllDigits(segs[i]) \/ IsNegative(segs[i])
     /\ \E i \in {2, 3} : IsNegative(segs[i])

\* C4 as claimed: a finished GET /add/a/b with a negative a or b has status
\* 200 and the body "{a} + {b} = {a+b+1}".
C4_NegativeAccepted ==
  \A s \in DOMAIN slots :
    NegativeAddRequest(s) =>
      LET segs == Segs(slots[s].path)
          a == int(segs[2]).value
          b == int(segs[3]).value
      IN /\ slots[s].response.status = 200
         /\ slots[s].response.body = Sum(a, b, a + b + 1)

\* C4 as amended: a finished GET /add/a/b with a negative a or b has status
\* 404, and add was not called for it: the int converter of the add rule
\* takes unsigned decimal digits only.
C4_NegativeIs404 ==
  \A s \in DOMAIN slots :
    NegativeAddRequest(s) =>
      /\ slots[s].response.status = 404
      /\ slots[s].called = "none"

C4_Witness ==
  \E s \in DOMAIN slots :
    /\ NegativeAddRequest(s)
    /\ slots[s].path = PathOf(<<AddSeg, <<"-", "1">>, <<"3">>>>)
    /\ slots[s].response.status = 404

Ok(body) == [status |-> 200, body |-> body, location |-> <<>>]

Failed(code, body) == [status |-> code, body |-> body, location |-> <<>>]

\* The response to each request of SampleRequests when the app handles that
\* request and no other.
AloneResponse(method, path) ==
  CASE method = "GET" /\ path = PathOf(<<(<<>>)>>) -> Ok("Hello Flask!")
    [] method = "GET" /\ path = PathOf(<<AddSeg, <<"2">>, <<"3">>>>)
         -> Ok("2 + 3 = 6")
    [] method = "GET" /\ path = PathOf(<<AddSeg, <<"7">>, <<"3">>>>)
         -> Ok("7 + 3 = 11")
    [] method = "GET" /\ path = PathOf(<<AddSeg, <<"0", "0", "7">>, <<"0", "3">>>>)
         -> Ok("7 + 3 = 11")
    [] method = "GET" /\ path = PathOf(<<AddSeg, <<"2">>, <<"f", "o", "o">>>>)
         -> Failed(404, "Not Found")
    [] method = "GET" /\ path = PathOf(<<AddSeg, <<"-", "1">>, <<"5">>>>)
         -> Failed(404, "Not Found")
    [] method = "GET" /\ path = PathOf(<<AddSeg, <<"2">>, <<>>, <<"3">>>>)
         -> [status |-> 308, body |-> "Redirecting...",
             location |-> PathOf(<<AddSeg, <<"2">>, <<"3">>>>)]
    [] method = "POST" /\ path = PathOf(<<AddSeg, <<"2">>, <<"3">>>>)
         -> Failed(405, "Method Not Allowed")

SameRequest(s, t) ==
  /\ slots[s].app = slots[t].app
  /\ slots[s].method = slots[t].method
  /\ slots[s].path = slots[t].path

\* C5: two finished requests to the same app with the same method and path
\* have the same status and body and ran the same view function, whichever
\* came first and whatever was handled in between.
C5_Idempotent ==
  \A s, t \in DOMAIN slots :
    (Done(s) /\ Done(t) /\ SameRequest(s, t)) =>
      /\ slots[s].response = slots[t].response
      /\ slots[s].called = slots[t].called

C5_Witness ==
  \E s, t \in DOMAIN slots :
    /\ s # t /\ Done(s) /\ Done(t) /\ SameRequest(s, t)
    /\ slots[s].called = "add"
    /\ slots[s].response = slots[t].response

\* C6: with requests handled at the same time in any interleaving, every
\* finished request has the response it gets when handled alone, and the
\* app's routes are as create_app left them.
C6_ConcurrentAsAlone ==
  /\ \A s \in DOMAIN slots :
       Done(s) => slots[s].response = AloneResponse(slots[s].method, slots[s].path)
  /\ \A a \in DOMAIN apps :
       /\ apps[a].url_map = {IndexRule, AddRule}
       /\ apps[a].view_functions = {"index", "add"}

C6_Witness ==
  \E s, t \in DOMAIN slots :
    /\ s # t /\ Done(s) /\ slots[t].pc = "matched"
    /\ slots[s].called = "add" /\ slots[t].match.endpoint = "add"
    /\ slots[s].path # slots[t].path
    /\ slots[s].response = AloneResponse(slots[s].method, slots[s].path)

\* A step changes an app only by a request to that app finishing.
AppsApart ==
  \A i \in DOMAIN apps :
    (i \in DOMAIN apps' /\ apps'[i] # apps[i]) =>
      \E s \in DOMAIN slots :
        /\ slots[s].pc = "matched" /\ slots[s].app = i
        /\ slots'[s].pc = "done"

\* C7: every create_app call, whatever its config, returns a further app
\* with the rule '/' for index and the rule '/add/<int:num1>/<int:num2>'
\* for add; requests get the same responses on every app; and a request to
\* one app changes no other app.
C7_CreateAppIgnoresConfig ==
  /\ [](/\ Len(apps) = Len(configs)
        /\ \A i \in DOMAIN apps :
             /\ {<<r.rule, r.endpoint>> : r \in apps[i].url_map} =
                  { <<(<<Static(<<>>)>>), "index">>,
                    <<(<<Static(AddSeg), Converter("int", "num1"),
                         Converter("int", "num2")>>), "add">> }
             /\ apps[i].view_functions = {"index", "add"}
        /\ \A s \in DOMAIN slots :
             Done(s) =>
               slots[s].response = AloneResponse(slots[s].method, slots[s].path))
  /\ [][AppsApart]_vars

C7_Witness ==
  /\ Len(apps) = 2
  /\ configs[1] = "None" /\ configs[2] = "testing"
  /\ ~apps[1].got_first_request
  /\ \E s \in DOMAIN slots :
       /\ Done(s) /\ slots[s].app = 2
       /\ slots[s].response = Ok("2 + 3 = 6")

\* C8: a finished GET /add/007/03 has status 200 and the body "7 + 3 = 11",
\* and two finished GET /add/a/b requests whose segments have the same
\* integer values have the same body, however the segments are written.
C8_BodyFromParsedIntegers ==
  /\ \A s \in DOMAIN slots :
       (/\ Done(s) /\ slots[s].method = "GET"
        /\ slots[s].path = PathOf(<<AddSeg, <<"0", "0", "7">>, <<"0", "3">>>>)) =>
          slots[s].response = Ok("7 + 3 = 11")
  /\ \A s, t \in DOMAIN slots :
       (/\ Done(s) /\ Done(t)
        /\ slots[s].method = "GET" /\ slots[t].method = "GET"
        /\ IsAddPath(slots[s].path) /\ IsAddPath(slots[t].path)
        /\ \A i \in {2, 3} : int(Segs(slots[s].path)[i]).value =
                              int(Segs(slots[t].path)[i]).value) =>
          /\ slots[s].response.status = 200
          /\ slots[s].response = slots[t].response

C8_Witness ==
  \E s, t \in DOMAIN slots :
    /\ Done(s) /\ Done(t)
    /\ slots[s].method = "GET" /\ slots[t].method = "GET"
    /\ slots[s].path = PathOf(<<AddSeg, <<"0", "0", "7">>, <<"0", "3">>>>)
    /\ slots[t].path = PathOf(<<AddSeg, <<"7">>, <<"3">>>>)
    /\ slots[s].response.body = "7 + 3 = 11"
    /\ slots[t].response.body = "7 + 3 = 11"

C10_OnlyReadMethods ==
  \A s \in DOMAIN slots :
    Done(s) =>
      /\ (slots[s].method \in {"POST", "PUT", "DELETE"} /\ Registered(slots[s].path))
           => (slots[s].response.status = 405 /\ slots[s].called = "none")
      /\ slots[s].called # "none" => slots[s].method \in {"GET", "HEAD"}
      /\ (slots[s].method # "GET" /\ slots[s].response.status = 200)
           => slots[s].response.body = ""
      /\ (slots[s].method = "HEAD" /\ Registered(slots[s].path))
           => (slots[s].response.status = 200 /\ slots[s].response.body = "")

C10_Witness ==
  \E s \in DOMAIN slots :
    /\ Done(s) /\ slots[s].method = "DELETE"
    /\ slots[s].path = PathOf(<<AddSeg, <<"2">>, <<"3">>>>)
    /\ slots[s].response.status = 405
    /\ slots[s].called = "none"

=============================================================================
